---- MODULE Spec2Model ----
(***************************************************************************)
(* Model of create.py: the .tex -> .pandora bundler.                       *)
(*                                                                         *)
(* A source text is a sequence of tokens.  A token stands for the run of   *)
(* characters it spells ("\\begin", "{", "manim", "a", " " ...).  Inside   *)
(* the parser a string is a sequence of records [ch, at]: ch is the token  *)
(* and at its position in the source file, carried along so that the       *)
(* source span of every element is known.  All matching looks at ch only.  *)
(***************************************************************************)
EXTENDS Integers, Sequences, FiniteSets, TLC

VARIABLES argv, tex, pc, usage, layout, elements, expanded, k,
          sequence, i, outcome, archive

vars == <<argv, tex, pc, usage, layout, elements, expanded, k,
          sequence, i, outcome, archive>>

----------------------------------------------------------------------------
(* Bounds                                                                  *)

MaxArgs == 3
MaxFrags == 3
MaxMediaFrags == 4
MaxLayoutFrags == 3
MaxInner == 2
MaxMainMedia == 2

----------------------------------------------------------------------------
(* Strings                                                                 *)

None == "None"

Min(S) == CHOOSE x \in S : \A y \in S : x <= y
Max(S) == CHOOSE x \in S : \A y \in S : x >= y

Sub(s, a, b) == IF a > b THEN <<>> ELSE SubSeq(s, a, b)

Chars(s) == [j \in DOMAIN s |-> s[j].ch]

Positions(s) == {s[j].at : j \in DOMAIN s}

Source(t) == [j \in DOMAIN t |-> [ch |-> t[j], at |-> j]]

RECURSIVE Join(_)
Join(t) == IF t = <<>> THEN "" ELSE Head(t) \o Join(Tail(t))

IsSpace(c) == c \in {" ", "\n"}

Strip(s) ==
  LET keep == {j \in DOMAIN s : ~IsSpace(s[j].ch)}
  IN  IF keep = {} THEN <<>> ELSE Sub(s, Min(keep), Max(keep))

LitAt(s, j, lit) ==
  /\ j >= 1
  /\ j + Len(lit) - 1 <= Len(s)
  /\ \A n \in 1..Len(lit) : s[j + n - 1].ch = lit[n]

FirstFrom(s, from, lit) ==
  LET c == {j \in from..Len(s) : LitAt(s, j, lit)}
  IN  IF c = {} THEN 0 ELSE Min(c)

Element(typ, text, code, file, width, height, scale, span) ==
  [type |-> typ, text |-> text, code |-> code, file |-> file,
   width |-> width, height |-> height, scale |-> scale, span |-> span]

----------------------------------------------------------------------------
(* parse_latex, first pass: \begin{manim} ... \end{manim}                  *)

BeginManim == <<"\\begin", "{", "manim", "}">>
EndManim == <<"\\end", "{", "manim", "}">>

RECURSIVE BlockMatches(_, _)
BlockMatches(s, from) ==
  LET b == FirstFrom(s, from, BeginManim)
      e == IF b = 0 THEN 0 ELSE FirstFrom(s, b + Len(BeginManim), EndManim)
  IN  IF b = 0 \/ e = 0 THEN <<>>
      ELSE <<[start |-> b, end |-> e + Len(EndManim),
              g1 |-> Sub(s, b + Len(BeginManim), e - 1)]>>
           \o BlockMatches(s, e + Len(EndManim))

LatexIfAny(s) ==
  IF Strip(s) = <<>> THEN <<>>
  ELSE <<Element("latex", Strip(s), <<>>, <<>>, None, None, None,
                 Positions(Strip(s)))>>

(* BlockLoop with the code of a block left untrimmed *)
RECURSIVE BlockLoopUntrimmed(_, _, _)
BlockLoopUntrimmed(s, ms, pos) ==
  IF ms = <<>> THEN LatexIfAny(Sub(s, pos, Len(s)))
  ELSE LET m == Head(ms)
       IN  LatexIfAny(Sub(s, pos, m.start - 1))
           \o <<Element("manim", <<>>, m.g1, <<>>, None, None, None,
                        Positions(Sub(s, m.start, m.end - 1)))>>
           \o BlockLoopUntrimmed(s, Tail(ms), m.end)

RECURSIVE BlockLoop(_, _, _)
BlockLoop(s, ms, pos) ==
  IF ms = <<>> THEN LatexIfAny(Sub(s, pos, Len(s)))
  ELSE LET m == Head(ms)
       IN  LatexIfAny(Sub(s, pos, m.start - 1))
           \o <<Element("manim", <<>>, Strip(m.g1), <<>>, None, None, None,
                        Positions(Sub(s, m.start, m.end - 1)))>>
           \o BlockLoop(s, Tail(ms), m.end)

SegmentBlocks(s) == BlockLoop(s, BlockMatches(s, 1), 1)

----------------------------------------------------------------------------
(* parse_latex, second pass: inline \manim{...}                            *)

RECURSIVE Pick(_, _, _)
Pick(s, keep, j) ==
  IF j > Len(s) THEN <<>>
  ELSE (IF j \in keep THEN <<s[j]>> ELSE <<>>) \o Pick(s, keep, j + 1)

Covered(ms) == UNION {m.start .. (m.end - 1) : m \in {ms[n] : n \in DOMAIN ms}}

RECURSIVE InlineMatches(_, _)
InlineMatches(s, from) ==
  LET c == {j \in from..(Len(s) - 2) :
              /\ s[j].ch = "\\manim"
              /\ s[j + 1].ch = "{"
              /\ \E n \in (j + 2)..Len(s) : s[n].ch = "}"}
  IN  IF c = {} THEN <<>>
      ELSE LET j == Min(c)
               e == Min({n \in (j + 2)..Len(s) : s[n].ch = "}"})
           IN  <<[start |-> j, end |-> e + 1, g1 |-> Sub(s, j + 2, e - 1)]>>
               \o InlineMatches(s, e + 1)

repl_inline(s, m) ==
  Element("manim", <<>>, m.g1, <<>>, None, None, None,
          Positions(Sub(s, m.start, m.end - 1)))

(* InlineElements with each match put in front of the earlier ones *)
InlineElementsReversed(s) ==
  LET ms == InlineMatches(s, 1)
  IN  [n \in DOMAIN ms |-> repl_inline(s, ms[Len(ms) + 1 - n])]

InlineElements(s) ==
  LET ms == InlineMatches(s, 1) IN [n \in DOMAIN ms |-> repl_inline(s, ms[n])]

InlineRemoved(s) == Pick(s, DOMAIN s \ Covered(InlineMatches(s, 1)), 1)

----------------------------------------------------------------------------
(* parse_latex, second pass: page breaks                                   *)

PageBreakWords == {"\\newpage", "\\breakpage"}

(* SplitBreaks without the capture group: the separators are dropped *)
RECURSIVE SplitNoCapture(_)
SplitNoCapture(s) ==
  LET c == {j \in DOMAIN s : s[j].ch \in PageBreakWords}
  IN  IF c = {} THEN <<s>>
      ELSE LET j == Min(c)
           IN  <<Sub(s, 1, j - 1)>> \o SplitNoCapture(Sub(s, j + 1, Len(s)))

RECURSIVE SplitBreaks(_)
SplitBreaks(s) ==
  LET c == {j \in DOMAIN s : s[j].ch \in PageBreakWords}
  IN  IF c = {} THEN <<s>>
      ELSE LET j == Min(c)
           IN  <<Sub(s, 1, j - 1), Sub(s, j, j)>>
               \o SplitBreaks(Sub(s, j + 1, Len(s)))

----------------------------------------------------------------------------
(* parse_latex, second pass: \image and \video                             *)

(* The media pattern tried at index j: the word, an optional "[", a run of *)
(* tokens other than "]" (group 1), an optional "]", "{", one or more      *)
(* tokens other than "}" (group 2), "}".  The regex engine prefers taking  *)
(* "[", then the longest run for group 1, then taking "]".                 *)
MediaAt(s, j, word) ==
  IF s[j].ch # word THEN {}
  ELSE {c \in [ob : {0, 1}, lb : 0..(Len(s) - j), cb : {0, 1}] :
          LET p1 == j + 1 + c.ob
              p2 == p1 + c.lb
              p3 == p2 + c.cb
          IN  /\ p3 + 2 <= Len(s)
              /\ s[p3].ch = "{"
              /\ s[p3 + 1].ch # "}"
              /\ c.ob = 1 => s[j + 1].ch = "["
              /\ c.cb = 1 => s[p2].ch = "]"
              /\ \A n \in p1..(p2 - 1) : s[n].ch # "]"
              /\ \E n \in (p3 + 2)..Len(s) : s[n].ch = "}"}

Rank(s, c) == c.ob * (2 * (Len(s) + 1)) + 2 * c.lb + c.cb

MediaMatchAt(s, j, word) ==
  LET cs == MediaAt(s, j, word)
      c  == CHOOSE x \in cs : \A y \in cs : Rank(s, x) >= Rank(s, y)
      p1 == j + 1 + c.ob
      p2 == p1 + c.lb
      p3 == p2 + c.cb
      e  == Min({n \in (p3 + 2)..Len(s) : s[n].ch = "}"})
  IN  [start |-> j, end |-> e + 1,
       opt |-> Sub(s, p1, p2 - 1), path |-> Sub(s, p3 + 1, e - 1)]

RECURSIVE MediaMatches(_, _, _)
MediaMatches(s, from, word) ==
  LET c == {j \in from..Len(s) : MediaAt(s, j, word) # {}}
  IN  IF c = {} THEN <<>>
      ELSE LET m == MediaMatchAt(s, Min(c), word)
           IN  <<m>> \o MediaMatches(s, m.end, word)

IsDigits(c) == c \in {"2"}
DigitPrefix(c) == IF c = "2" THEN "2" ELSE IF c = "50%" THEN "50"
                  ELSE IF c = "8px" THEN "8" ELSE ""
HasUnit(c) == c \in {"50%", "8px"}

DigitRun(o, v) ==
  Max({n \in 0..(Len(o) - v + 1) : \A q \in v..(v + n - 1) : IsDigits(o[q].ch)})

SkipSpace(o, j) ==
  Min({n \in j..(Len(o) + 1) : n = Len(o) + 1 \/ ~IsSpace(o[n].ch)})

(* digits followed by % or px at index v of o, "" when it does not match *)
SizeAt(o, v) ==
  LET u == v + DigitRun(o, v)
  IN  IF u <= Len(o) /\ HasUnit(o[u].ch) THEN Join(Chars(Sub(o, v, u))) ELSE ""

(* a run of digits and dots at index v of o, "" when it does not match *)
NumberAt(o, v) ==
  LET u == v + DigitRun(o, v)
  IN  Join(Chars(Sub(o, v, u - 1)))
      \o (IF u <= Len(o) THEN DigitPrefix(o[u].ch) ELSE "")

(* group 1 of the leftmost match of: key, spaces, "=", spaces, value *)
AttrSearch(o, key, size) ==
  LET val(j) == LET e == SkipSpace(o, j + 1)
                    v == SkipSpace(o, e + 1)
                IN  IF e > Len(o) \/ o[e].ch # "=" THEN ""
                    ELSE IF size THEN SizeAt(o, v) ELSE NumberAt(o, v)
      hits == {j \in DOMAIN o : o[j].ch = key /\ val(j) # ""}
  IN  IF hits = {} THEN None ELSE val(Min(hits))

parse_media(s, m, typ) ==
  Element(typ, <<>>, <<>>, Strip(m.path),
          IF m.opt = <<>> THEN None ELSE AttrSearch(m.opt, "width", TRUE),
          IF m.opt = <<>> THEN None ELSE AttrSearch(m.opt, "height", TRUE),
          IF m.opt = <<>> THEN None ELSE AttrSearch(m.opt, "scale", FALSE),
          Positions(Sub(s, m.start, m.end - 1)))

RECURSIVE ReplaceAll(_, _)
ReplaceAll(s, sub) ==
  LET j == FirstFrom(s, 1, sub)
  IN  IF j = 0 THEN s
      ELSE Sub(s, 1, j - 1) \o ReplaceAll(Sub(s, j + Len(sub), Len(s)), sub)

RECURSIVE RemoveMatches(_, _, _)
RemoveMatches(part, s, ms) ==
  IF ms = <<>> THEN part
  ELSE RemoveMatches(
         ReplaceAll(part, Chars(Sub(s, Head(ms).start, Head(ms).end - 1))),
         s, Tail(ms))

MediaElements(s, word, typ) ==
  LET ms == MediaMatches(s, 1, word)
  IN  [n \in DOMAIN ms |-> parse_media(s, ms[n], typ)]

ExpandPart(part) ==
  IF Strip(part) = <<>> THEN <<>>
  ELSE IF Len(Strip(part)) = 1 /\ Strip(part)[1].ch \in PageBreakWords
  THEN <<Element("pagebreak", <<>>, <<>>, <<>>, None, None, None,
                 Positions(Strip(part)))>>
  ELSE LET p1 == RemoveMatches(part, part, MediaMatches(part, 1, "\\image"))
           p2 == RemoveMatches(p1, p1, MediaMatches(p1, 1, "\\video"))
       IN  MediaElements(part, "\\image", "image")
           \o MediaElements(p1, "\\video", "video")
           \o LatexIfAny(p2)

RECURSIVE ExpandParts(_)
ExpandParts(parts) ==
  IF parts = <<>> THEN <<>>
  ELSE ExpandPart(Head(parts)) \o ExpandParts(Tail(parts))

ExpandLatex(t) ==
  InlineElements(t) \o ExpandParts(SplitBreaks(InlineRemoved(t)))

----------------------------------------------------------------------------
(* parse_latex: layout detection                                           *)

HasTwoColumn(c) == c \in {"twocolumn", "\\twocolumn"}

LineStart(s, j) == j = 1 \/ s[j - 1].ch = "\n"

LayoutMarkerAt(s, j) ==
  \/ /\ s[j].ch = "%%"
     /\ SkipSpace(s, j + 1) <= Len(s)
     /\ s[SkipSpace(s, j + 1)].ch = "twocolumn"
  \/ s[j].ch = "\\twocolumn"
  \/ /\ s[j].ch = "\\document"
     /\ j + 1 <= Len(s)
     /\ s[j + 1].ch = "["
     /\ \E a \in (j + 2)..Len(s) : \E b \in (a + 1)..Len(s) :
          /\ HasTwoColumn(s[a].ch)
          /\ s[b].ch = "]"
          /\ \A n \in (j + 2)..b : s[n].ch # "\n"

DetectLayout(s) ==
  IF \E j \in DOMAIN s : LineStart(s, j) /\ LayoutMarkerAt(s, j)
  THEN "two-column" ELSE "single-column"

----------------------------------------------------------------------------
(* main: manifest entries                                                  *)

Entry(typ, file, text, width, height, scale) ==
  [type |-> typ, file |-> file, text |-> text,
   width |-> width, height |-> height, scale |-> scale]

(* Path(f).name *)
BaseName(f) ==
  LET body  == {j \in DOMAIN f : f[j] # "/"}
      last  == IF body = {} THEN 0 ELSE Max(body)
      slash == {j \in 1..last : f[j] = "/"}
      first == IF slash = {} THEN 1 ELSE Max(slash) + 1
  IN  IF last = 0 THEN "" ELSE Join(Sub(f, first, last))

SceneFile(n) == "videos/scene_" \o ToString(n) \o ".mp4"
BlockFile(n) == "latex/block_" \o ToString(n) \o ".svg"
MediaFile(el) == el.type \o "s/" \o BaseName(Chars(el.file))

ManimEntry(n, out) ==
  IF out = "ok" THEN Entry("video", SceneFile(n), None, None, None, None)
  ELSE Entry("error", None, "Manim render failed snippet " \o ToString(n),
             None, None, None)

MediaEntry(el) ==
  Entry(el.type, MediaFile(el), None, el.width, el.height, el.scale)

(* LatexEntry numbering the file by the blocks rendered so far *)
LatexEntryCounted(n, out) ==
  IF out = "fail"
  THEN Entry("error", None, "LaTeX render failed for block " \o ToString(n),
             None, None, None)
  ELSE Entry("latex",
             BlockFile(Cardinality({j \in DOMAIN sequence :
                                      sequence[j].type # "error"})),
             None, None, None, None)

LatexEntry(n, out) ==
  IF out = "fail"
  THEN Entry("error", None, "LaTeX render failed for block " \o ToString(n),
             None, None, None)
  ELSE Entry("latex", BlockFile(n), None, None, None, None)

----------------------------------------------------------------------------
(* Inputs                                                                  *)

Prog == "create.py"
ArgWords == {"in.tex", "-o", "out.pandora"}
Canonical == <<Prog, "in.tex", "-o", "out.pandora">>

RECURSIVE ArgLists(_)
ArgLists(n) ==
  IF n = 0 THEN {<<>>}
  ELSE LET r == ArgLists(n - 1)
       IN  r \cup {Append(a, w) : a \in {x \in r : Len(x) = n - 1}, w \in ArgWords}

CommandLines == {<<Prog>> \o a : a \in ArgLists(MaxArgs)}

Frags ==
  { <<"a">>, <<" ">>, <<"\\newpage">>,
    BeginManim, EndManim,
    <<"\\manim", "{", "c", "}">>,
    <<"\\manim", "{">>,
    <<"\\video", "{", "scene_0.mp4", "}">> }

MediaFrags ==
  { <<"]">>, <<"{", "b", "}">>,
    <<"\\image", "{", "d", "/", "x", "}">>,
    <<"\\image", "[", "width", "=", "50%", "]", "{", "e", "/", "x", "}">>,
    <<"\\image", "[", "height", "=", "8px", "{", "y", "}">>,
    <<"\\video", "[", "scale", " ", "=", "2", "]", "{", " ", "v", " ", "}">> }

LayoutFrags ==
  { <<"a">>, <<"\n">>,
    <<"%%", " ", "twocolumn">>,
    <<"\\twocolumn">>,
    <<"\\document", "[", "twocolumn", "]">>,
    <<"\\documentclass", "[", "twocolumn", "]", "{", "article", "}">> }

OuterTexts ==
  { <<>>, <<" ">>, <<"a", " ">>, <<" ", "a">>, <<"a", "\\breakpage">> }

InnerFrags ==
  { <<"c">>, <<"\\newpage">>, <<"\\manim", "{", "c", "}">>,
    <<" ", "\\video", "{", "v", "}">> }

RECURSIVE Texts(_, _)
Texts(F, n) ==
  IF n = 0 THEN {<<>>}
  ELSE LET r == Texts(F, n - 1) IN r \cup {f \o t : f \in F, t \in r}

BlockTexts ==
  {pre \o BeginManim \o inner \o EndManim \o post :
     pre \in OuterTexts, inner \in Texts(InnerFrags, MaxInner),
     post \in OuterTexts}

(* the source texts parse_latex is run on *)
ParseInputs == Texts(Frags, MaxFrags) \cup Texts(MediaFrags, MaxMediaFrags)
               \cup Texts(LayoutFrags, MaxLayoutFrags) \cup BlockTexts

(* the source texts a whole run of main is followed on *)
MainInputs == Texts(Frags, MaxFrags) \cup Texts(MediaFrags, MaxMainMedia)

SmallText == <<"a">>

----------------------------------------------------------------------------
(* main                                                                    *)

Arg(n) == argv[n + 1]

IndexOf(w) ==
  LET c == {n \in 0..(Len(argv) - 1) : Arg(n) = w}
  IN  IF c = {} THEN -1 ELSE Min(c)

infile == Arg(1)
outfile == Arg(IndexOf("-o") + 1)

NoArchive == [file |-> None, layout |-> None, sequence |-> <<>>]

Init ==
  /\ argv \in CommandLines
  /\ tex \in (IF argv = Canonical THEN MainInputs ELSE {SmallText})
  /\ pc = "start"
  /\ usage = FALSE
  /\ layout = None
  /\ elements = <<>>
  /\ expanded = <<>>
  /\ k = 0
  /\ sequence = <<>>
  /\ i = 0
  /\ outcome = <<>>
  /\ archive = NoArchive

Usage ==
  /\ pc = "start"
  /\ Len(argv) < 3
  /\ usage' = TRUE
  /\ pc' = "exit"
  /\ UNCHANGED <<argv, tex, layout, elements, expanded, k, sequence, i,
                 outcome, archive>>

(* sys.argv.index("-o") raises ValueError, sys.argv[...] raises IndexError *)
BadOption ==
  /\ pc = "start"
  /\ Len(argv) >= 3
  /\ \/ IndexOf("-o") = -1
     \/ IndexOf("-o") + 1 > Len(argv) - 1
  /\ pc' = "crash"
  /\ UNCHANGED <<argv, tex, usage, layout, elements, expanded, k, sequence,
                 i, outcome, archive>>

(* infile.read_text raises when the file cannot be read *)
ReadFails ==
  /\ pc = "start"
  /\ Len(argv) >= 3
  /\ IndexOf("-o") # -1
  /\ IndexOf("-o") + 1 <= Len(argv) - 1
  /\ pc' = "crash"
  /\ UNCHANGED <<argv, tex, usage, layout, elements, expanded, k, sequence,
                 i, outcome, archive>>

ReadInput ==
  /\ pc = "start"
  /\ Len(argv) >= 3
  /\ IndexOf("-o") # -1
  /\ IndexOf("-o") + 1 <= Len(argv) - 1
  /\ pc' = "layout"
  /\ UNCHANGED <<argv, tex, usage, layout, elements, expanded, k, sequence,
                 i, outcome, archive>>

Layout ==
  /\ pc = "layout"
  /\ layout' = DetectLayout(Source(tex))
  /\ pc' = "segment"
  /\ UNCHANGED <<argv, tex, usage, elements, expanded, k, sequence, i,
                 outcome, archive>>

Segment ==
  /\ pc = "segment"
  /\ elements' = SegmentBlocks(Source(tex))
  /\ expanded' = <<>>
  /\ k' = 1
  /\ pc' = "expand"
  /\ UNCHANGED <<argv, tex, usage, layout, sequence, i, outcome, archive>>

ExpandOther ==
  /\ pc = "expand"
  /\ k <= Len(elements)
  /\ elements[k].type # "latex"
  /\ expanded' = Append(expanded, elements[k])
  /\ k' = k + 1
  /\ UNCHANGED <<argv, tex, pc, usage, layout, elements, sequence, i,
                 outcome, archive>>

ExpandText ==
  /\ pc = "expand"
  /\ k <= Len(elements)
  /\ elements[k].type = "latex"
  /\ expanded' = expanded \o ExpandLatex(elements[k].text)
  /\ k' = k + 1
  /\ UNCHANGED <<argv, tex, pc, usage, layout, elements, sequence, i,
                 outcome, archive>>

Parsed ==
  /\ pc = "expand"
  /\ k > Len(elements)
  /\ pc' = "dispatch"
  /\ i' = 0
  /\ sequence' = <<>>
  /\ UNCHANGED <<argv, tex, usage, layout, elements, expanded, k, outcome,
                 archive>>

el == expanded[i + 1]

(* Step that leaves a failed conversion out of the manifest *)
StepSkipsFailure(entry, out) ==
  /\ sequence' = IF out \in {"fail", "novideo"} THEN sequence
                 ELSE Append(sequence, entry)
  /\ outcome' = Append(outcome, out)
  /\ i' = i + 1
  /\ UNCHANGED <<argv, tex, pc, usage, layout, elements, expanded, k, archive>>

Step(entry, out) ==
  /\ sequence' = Append(sequence, entry)
  /\ outcome' = Append(outcome, out)
  /\ i' = i + 1
  /\ UNCHANGED <<argv, tex, pc, usage, layout, elements, expanded, k, archive>>

DispatchPagebreak ==
  /\ pc = "dispatch"
  /\ i < Len(expanded)
  /\ el.type = "pagebreak"
  /\ Step(Entry("pagebreak", None, None, None, None, None), "none")

DispatchManim ==
  /\ pc = "dispatch"
  /\ i < Len(expanded)
  /\ el.type = "manim"
  /\ \E out \in {"ok", "fail", "novideo"} : Step(ManimEntry(i, out), out)

DispatchMedia ==
  /\ pc = "dispatch"
  /\ i < Len(expanded)
  /\ el.type \in {"video", "image"}
  /\ \E out \in {"copied", "missing"} : Step(MediaEntry(el), out)

DispatchLatex ==
  /\ pc = "dispatch"
  /\ i < Len(expanded)
  /\ el.type = "latex"
  /\ \E out \in {"ok", "fail"} : Step(LatexEntry(i, out), out)

WriteBundle ==
  /\ pc = "dispatch"
  /\ i = Len(expanded)
  /\ archive' = [file |-> outfile, layout |-> layout, sequence |-> sequence]
  /\ pc' = "done"
  /\ UNCHANGED <<argv, tex, usage, layout, elements, expanded, k, sequence,
                 i, outcome>>

Next ==
  \/ Usage
  \/ BadOption
  \/ ReadFails
  \/ ReadInput
  \/ Layout
  \/ Segment
  \/ ExpandOther
  \/ ExpandText
  \/ Parsed
  \/ DispatchPagebreak
  \/ DispatchManim
  \/ DispatchMedia
  \/ DispatchLatex
  \/ WriteBundle

Spec == Init /\ [][Next]_vars

(* parse_latex alone: from its call in main to its return *)
InitParse ==
  /\ argv = Canonical
  /\ tex \in ParseInputs
  /\ pc = "layout"
  /\ usage = FALSE
  /\ layout = None
  /\ elements = <<>>
  /\ expanded = <<>>
  /\ k = 0
  /\ sequence = <<>>
  /\ i = 0
  /\ outcome = <<>>
  /\ archive = NoArchive

NextParse ==
  \/ Layout
  \/ Segment
  \/ ExpandOther
  \/ ExpandText
  \/ Parsed

SpecParse == InitParse /\ [][NextParse]_vars

----------------------------------------------------------------------------
(* Properties                                                              *)

ParseDone == pc \in {"dispatch", "done"}

Start(e) == Min(e.span)

(* the first-pass region (index into elements) an expanded element is from *)
Region(e) == CHOOSE r \in DOMAIN elements : e.span \subseteq elements[r].span

----------------------------------------------------------------------------

LoopDone == pc = "done" \/ (pc = "dispatch" /\ i = Len(expanded))

Produced(etype, stype) ==
  \/ etype = "pagebreak" /\ stype = "pagebreak"
  \/ etype = "manim" /\ stype \in {"video", "error"}
  \/ etype \in {"image", "video"} /\ stype = etype
  \/ etype = "latex" /\ stype \in {"latex", "error"}

(* C1: when the dispatch loop has finished, the manifest sequence has as   *)
(* many entries as there are elements and entry n came from element n:     *)
(* pagebreak -> pagebreak, manim -> video or error, image/video -> the     *)
(* same kind with the element's size attributes, latex -> latex or error.  *)
C1_OneEntryPerElement ==
  LoopDone =>
    /\ Len(sequence) = Len(expanded)
    /\ \A n \in DOMAIN sequence :
         /\ Produced(expanded[n].type, sequence[n].type)
         /\ expanded[n].type \in {"image", "video"} =>
              /\ sequence[n].width = expanded[n].width
              /\ sequence[n].height = expanded[n].height
              /\ sequence[n].scale = expanded[n].scale
    /\ pc = "done" => archive.sequence = sequence

(* C1 witness: a finished run over a pagebreak, a media element and a      *)
(* block whose conversion failed.                                          *)
C1_Witness ==
  /\ pc = "done"
  /\ Len(expanded) >= 3
  /\ \E n \in DOMAIN sequence : sequence[n].type = "error"
  /\ \E n \in DOMAIN sequence : sequence[n].type = "pagebreak"
  /\ \E n \in DOMAIN sequence : sequence[n].type \in {"image", "video"}

Failed(out) == out \in {"fail", "novideo"}

(* the entry of element e at index n in the run where its conversion succeeds *)
OkType(e) == IF e.type = "manim" THEN "video" ELSE e.type
OkFile(n, e) ==
  IF e.type = "pagebreak" THEN None
  ELSE IF e.type = "manim" THEN "videos/scene_" \o ToString(n) \o ".mp4"
  ELSE IF e.type = "latex" THEN "latex/block_" \o ToString(n) \o ".svg"
  ELSE e.type \o "s/" \o BaseName(Chars(e.file))

(* C2: a failed conversion of element n leaves an error entry naming n at  *)
(* position n, the loop goes on to the next element, and every entry whose *)
(* own conversion did not fail has the type and file it has when no        *)
(* conversion fails.                                                       *)
C2_FailureIsolated ==
  (pc \in {"dispatch", "done"}) =>
    /\ Len(sequence) = i
    /\ Len(outcome) = i
    /\ pc = "done" => i = Len(expanded)
    /\ \A n \in DOMAIN sequence :
         IF Failed(outcome[n])
         THEN /\ sequence[n].type = "error"
              /\ sequence[n].file = None
              /\ sequence[n].text \in
                   {"Manim render failed snippet " \o ToString(n - 1),
                    "LaTeX render failed for block " \o ToString(n - 1)}
         ELSE /\ sequence[n].type = OkType(expanded[n])
              /\ sequence[n].file = OkFile(n - 1, expanded[n])

(* C2 witness: a finished run in which a conversion failed and the next    *)
(* element was converted.                                                  *)
C2_Witness ==
  /\ pc = "done"
  /\ \E n \in DOMAIN outcome :
       /\ n < Len(outcome)
       /\ Failed(outcome[n])
       /\ outcome[n + 1] = "ok"
       /\ sequence[n + 1].type \in {"latex", "video"}

----------------------------------------------------------------------------

(* C4 as stated: the layout is two-column exactly when a two-column marker *)
(* (the comment-style directive, \twocolumn, or the document-class option) *)
(* occurs anywhere in the source, also in the middle of a line.            *)
MarkerAnywhere(t) ==
  \E j \in DOMAIN t :
    \/ t[j] = "\\twocolumn"
    \/ /\ t[j] = "%%"
       /\ \E v \in (j + 1)..Len(t) :
            t[v] = "twocolumn" /\ \A n \in (j + 1)..(v - 1) : IsSpace(t[n])
    \/ /\ t[j] \in {"\\document", "\\documentclass"}
       /\ j + 1 <= Len(t)
       /\ t[j + 1] = "["
       /\ \E a \in (j + 2)..Len(t) : \E b \in (a + 1)..Len(t) :
            /\ t[a] = "twocolumn"
            /\ t[b] = "]"
            /\ \A n \in (j + 2)..b : t[n] # "\n"

C4_MarkerAnywhere ==
  layout # None =>
    (layout = "two-column" <=> MarkerAnywhere(tex))

----------------------------------------------------------------------------

MediaWords == {"\\image", "\\video"}

NoLater(t, j, c) == \A n \in (j + 1)..Len(t) : t[n] # c

Malformed(t, j) ==
  \/ /\ t[j] \in MediaWords \cup {"\\manim"}
     /\ j + 1 <= Len(t)
     /\ t[j + 1] = "{"
     /\ NoLater(t, j + 1, "}")
  \/ /\ t[j] \in MediaWords
     /\ j + 1 <= Len(t)
     /\ t[j + 1] = "["
     /\ NoLater(t, j + 1, "]")
  \/ /\ LitAt(Source(t), j, BeginManim)
     /\ FirstFrom(Source(t), j, EndManim) = 0

(* C5 as stated: a malformed directive (a brace never closed, an attribute *)
(* list whose "[" is never closed, a \begin{manim} without \end{manim})    *)
(* is part of no manim/image/video element and stays in a latex element.   *)
C5_MalformedStaysText ==
  ParseDone =>
    \A j \in DOMAIN tex :
      Malformed(tex, j) =>
        /\ \A n \in DOMAIN expanded :
             expanded[n].type \in {"manim", "image", "video"}
               => j \notin expanded[n].span
        /\ \E n \in DOMAIN expanded :
             expanded[n].type = "latex" /\ j \in expanded[n].span

----------------------------------------------------------------------------

FirstAfter(t, j, c) ==
  LET q == {n \in (j + 1)..Len(t) : t[n] = c} IN IF q = {} THEN 0 ELSE Min(q)

(* a well-formed media directive at j: the word, an optional [attributes]  *)
(* list right after it, then {path}                                        *)
OpenAt(t, j) ==
  IF j + 1 <= Len(t) /\ t[j + 1] = "{" THEN j + 1
  ELSE IF j + 1 <= Len(t) /\ t[j + 1] = "[" /\ FirstAfter(t, j + 1, "]") # 0
          /\ FirstAfter(t, j + 1, "]") + 1 <= Len(t)
          /\ t[FirstAfter(t, j + 1, "]") + 1] = "{"
       THEN FirstAfter(t, j + 1, "]") + 1
  ELSE 0

WellFormed(t, j) ==
  /\ t[j] \in MediaWords
  /\ OpenAt(t, j) # 0
  /\ FirstAfter(t, OpenAt(t, j), "}") > OpenAt(t, j) + 1

OwnPath(t, j) ==
  Chars(Strip(Source(Sub(t, OpenAt(t, j) + 1, FirstAfter(t, OpenAt(t, j), "}") - 1))))

OwnOptions(t, j) == {t[n] : n \in (j + 2)..(OpenAt(t, j) - 2)}

TextSpan(t) ==
  \A n \in DOMAIN t :
    t[n] \notin {"\\begin", "\\end", "\\manim", "\\newpage", "\\breakpage"}

(* C6 as stated: every well-formed \image or \video directive of a text    *)
(* span yields a media element with the directive's own trimmed path,      *)
(* whose width, height and scale are set exactly when the key is in the    *)
(* directive's own attribute list.                                         *)
C6_OwnPathAndAttributes ==
  (ParseDone /\ TextSpan(tex)) =>
    \A j \in DOMAIN tex :
      WellFormed(tex, j) =>
        \E n \in DOMAIN expanded :
          /\ expanded[n].type = (IF tex[j] = "\\image" THEN "image" ELSE "video")
          /\ Chars(expanded[n].file) = OwnPath(tex, j)
          /\ expanded[n].width # None <=> "width" \in OwnOptions(tex, j)
          /\ expanded[n].height # None <=> "height" \in OwnOptions(tex, j)
          /\ expanded[n].scale # None <=> "scale" \in OwnOptions(tex, j)

----------------------------------------------------------------------------

DirectiveWords == {"\\begin", "\\manim", "\\image", "\\video"}

Breaks(t) == {j \in DOMAIN t : t[j] \in PageBreakWords}

OneBreakOnly(t) ==
  /\ Cardinality(Breaks(t)) = 1
  /\ \A n \in DOMAIN t : t[n] \notin DirectiveWords

TextElement(s) ==
  IF Strip(s) = <<>> THEN <<>> ELSE <<[type |-> "latex", text |-> Strip(s)]>>

TypeAndText(es) == [n \in DOMAIN es |-> [type |-> es[n].type, text |-> es[n].text]]

(* C7: a text with one page break and no other directive yields the text   *)
(* before the break (trimmed), a pagebreak, the text after it (trimmed),   *)
(* in that order; a side that is blank yields no element; every token of   *)
(* the text that is not white space is in exactly one element.             *)
C7_BreakSplitsText ==
  (ParseDone /\ OneBreakOnly(tex)) =>
    LET j == CHOOSE b \in Breaks(tex) : TRUE
        src == Source(tex)
    IN  /\ TypeAndText(expanded) =
             TextElement(Sub(src, 1, j - 1))
             \o <<[type |-> "pagebreak", text |-> <<>>]>>
             \o TextElement(Sub(src, j + 1, Len(src)))
        /\ \A q \in DOMAIN tex :
             ~IsSpace(tex[q]) =>
               Cardinality({n \in DOMAIN expanded : q \in expanded[n].span}) = 1

(* C7 witness: text on both sides of the break, three elements.            *)
C7_Witness ==
  /\ ParseDone
  /\ OneBreakOnly(tex)
  /\ Len(expanded) = 3
  /\ expanded[1].type = "latex"
  /\ expanded[2].type = "pagebreak"
  /\ expanded[3].type = "latex"

----------------------------------------------------------------------------

Occurrences(t, lit) == {j \in DOMAIN t : LitAt(Source(t), j, lit)}

OneBlockOnly(t) ==
  /\ Cardinality(Occurrences(t, BeginManim)) = 1
  /\ Cardinality(Occurrences(t, EndManim)) = 1
  /\ \E b \in Occurrences(t, BeginManim) : \E e \in Occurrences(t, EndManim) :
       /\ b < e
       /\ \A n \in (1..(b - 1)) \cup ((e + Len(EndManim))..Len(t)) :
            t[n] \notin DirectiveWords \cup PageBreakWords \cup {"\\end"}

(* C8: a source with one \begin{manim}...\end{manim} region and plain text *)
(* around it yields the text before (if not blank), one manim element      *)
(* whose code is the trimmed content of the region, the text after (if not *)
(* blank); directives inside the region stay in the code.                  *)
C8_BlockSplitsText ==
  (ParseDone /\ OneBlockOnly(tex)) =>
    LET b == CHOOSE x \in Occurrences(tex, BeginManim) : TRUE
        e == CHOOSE x \in Occurrences(tex, EndManim) : TRUE
        src == Source(tex)
    IN  [n \in DOMAIN expanded |->
           [type |-> expanded[n].type, text |-> expanded[n].text,
            code |-> expanded[n].code]]
        = [n \in DOMAIN TextElement(Sub(src, 1, b - 1)) |->
             [type |-> "latex", text |-> Strip(Sub(src, 1, b - 1)), code |-> <<>>]]
          \o <<[type |-> "manim", text |-> <<>>,
                code |-> Strip(Sub(src, b + Len(BeginManim), e - 1))]>>
          \o [n \in DOMAIN TextElement(Sub(src, e + Len(EndManim), Len(src))) |->
               [type |-> "latex",
                text |-> Strip(Sub(src, e + Len(EndManim), Len(src))),
                code |-> <<>>]]

(* C8 witness: text, a region holding a page break and an inline           *)
(* directive, text.                                                        *)
C8_Witness ==
  /\ ParseDone
  /\ OneBlockOnly(tex)
  /\ Len(expanded) = 3
  /\ expanded[2].type = "manim"
  /\ \E n \in DOMAIN expanded[2].code : expanded[2].code[n].ch = "\\newpage"
  /\ \E n \in DOMAIN expanded[2].code :
       expanded[2].code[n].ch \in {"\\manim", "\\video"}

----------------------------------------------------------------------------

CompleteCommand ==
  /\ Len(argv) >= 4
  /\ argv[2] # "-o"
  /\ \E n \in 3..(Len(argv) - 1) : argv[n] = "-o"

(* C9 as stated: when the input file or the -o <output> pair is missing,   *)
(* main prints the usage message and ends without writing an archive.      *)
C9_UsageWhenArgsMissing ==
  (pc # "start" /\ ~CompleteCommand) =>
    /\ usage
    /\ pc = "exit"
    /\ archive = NoArchive

----------------------------------------------------------------------------

SameSource(e, f) ==
  /\ e.type \in {"image", "video"}
  /\ f.type = e.type
  /\ Chars(e.file) = Chars(f.file)

(* C10 as stated: two manifest entries that come from different elements   *)
(* (other than two references to the same media file) never carry the same *)
(* file path.                                                              *)
C10_DistinctFiles ==
  (pc \in {"dispatch", "done"}) =>
    \A m, n \in DOMAIN sequence :
      (/\ m < n
       /\ sequence[m].file # None
       /\ sequence[n].file # None
       /\ ~SameSource(expanded[m], expanded[n]))
        => sequence[m].file # sequence[n].file

====
